---- MODULE Spec2Model ----
(***************************************************************************)
(* Natural-breaks (Jenks) classification engine of ICIO_tax:               *)
(* jenksBreaks / varianceWithin / getClassIndex (utils/naturalBreaks.js)   *)
(* and getICIOColor / generateColorPalette, as listed in README.md.        *)
(*                                                                         *)
(* Numbers are modelled as integers.  varianceWithin is computed exactly,  *)
(* at the fixed scale ScaleOf(data) (the lcm of 1..data.length), so that   *)
(* the division by subset.length is exact and the sums the dynamic program *)
(* compares are the code's sums in exact arithmetic.  The palette's        *)
(* channels are computed as the code's IEEE-754 doubles compute them.      *)
(***************************************************************************)
EXTENDS Integers, Sequences, FiniteSets, TLC

\* ---------------------------------------------------------------- bounds
MaxLen == 4
MaxVal == 5
MaxK == 3
MaxRawLen == 3
MaxBreaks == 3
MaxColors == 3
MaxPaletteClasses == 60
MaxFeatures == 3
MaxAppVal == 2

\* ------------------------------------------------------------ raw values
\* A JavaScript value as the code's guards tell them apart.
Num(v) == [kind |-> "number", val |-> v]
Null == [kind |-> "null", val |-> 0]
Undefined == [kind |-> "undefined", val |-> 0]
NaN == [kind |-> "NaN", val |-> 0]

\* +Infinity and -Infinity: numbers above and below every finite entry
Huge == 1000
PosInfinity == [kind |-> "Infinity", val |-> Huge]
NegInfinity == [kind |-> "-Infinity", val |-> 0 - Huge]

Numbers == {Num(v) : v \in 0..MaxVal}
Invalids == {Null, Undefined, NaN}

\* (mutant) the !isNaN(d) test is missing
IsValidEntryNoNaNTest(d) == d.kind # "null" /\ d.kind # "undefined"

\* d !== null && d !== undefined && !isNaN(d)
IsValidEntry(d) == d.kind # "null" /\ d.kind # "undefined" /\ d.kind # "NaN"

\* ------------------------------------------------------------ array helpers
RECURSIVE SeqsUpTo(_, _)
SeqsUpTo(S, n) ==
  IF n = 0 THEN {<<>>}
  ELSE LET shorter == SeqsUpTo(S, n - 1)
       IN shorter \cup {Append(s, x) : s \in {t \in shorter : Len(t) = n - 1}, x \in S}

\* data.filter(valid).map(Number)
RECURSIVE cleanDataOf(_)
cleanDataOf(data) ==
  IF data = <<>> THEN <<>>
  ELSE IF IsValidEntry(Head(data))
       THEN <<Head(data).val>> \o cleanDataOf(Tail(data))
       ELSE cleanDataOf(Tail(data))

\* insertion of x into an ascending sequence, after its equals
RECURSIVE InsertAsc(_, _)
InsertAsc(s, x) ==
  IF s = <<>> THEN <<x>>
  ELSE IF x < Head(s) THEN <<x>> \o s
       ELSE <<Head(s)>> \o InsertAsc(Tail(s), x)

\* [...cleanData].sort((a, b) => a - b)
RECURSIVE sortedOf(_)
sortedOf(s) ==
  IF s = <<>> THEN <<>> ELSE InsertAsc(sortedOf(SubSeq(s, 1, Len(s) - 1)), s[Len(s)])

\* a.indexOf(v): 1-based position of the first entry equal to v (0 if none)
indexOf(a, v) ==
  IF \E p \in 1..Len(a) : a[p] = v
  THEN CHOOSE p \in 1..Len(a) : a[p] = v /\ \A q \in 1..(p - 1) : a[q] # v
  ELSE 0

\* a.filter((v, i, a) => a.indexOf(v) === i); also [...new Set(a)]
RECURSIVE KeepFirst(_, _)
KeepFirst(a, p) ==
  IF p > Len(a) THEN <<>>
  ELSE IF indexOf(a, a[p]) = p THEN <<a[p]>> \o KeepFirst(a, p + 1)
       ELSE KeepFirst(a, p + 1)

\* (mutant) the duplicates are left in
removeDuplicatesForgotten(a) == a

removeDuplicates(a) == KeepFirst(a, 1)

\* ---------------------------------------------------------- varianceWithin
RECURSIVE Gcd(_, _)
Gcd(a, b) == IF b = 0 THEN a ELSE Gcd(b, a % b)

RECURSIVE LcmUpTo(_)
LcmUpTo(n) == IF n <= 1 THEN 1 ELSE LET l == LcmUpTo(n - 1) IN (l * n) \div Gcd(l, n)

ScaleOf(data) == LcmUpTo(Len(data))

RECURSIVE SumSeq(_)
SumSeq(s) == IF s = <<>> THEN 0 ELSE Head(s) + SumSeq(Tail(s))

\* sum of (val - mean)^2 over subset, times len^2
RECURSIVE SumSqDev(_, _, _)
SumSqDev(subset, len, sum) ==
  IF subset = <<>> THEN 0
  ELSE (len * Head(subset) - sum) * (len * Head(subset) - sum)
       + SumSqDev(Tail(subset), len, sum)

\* (mutant) data.slice(start, end): the last element of the class is left out
varianceWithinShortSlice(data, start, end) ==
  IF start >= end THEN 0
  ELSE LET subset == SubSeq(data, start + 1, end)
           len == Len(subset)
           sum == SumSeq(subset)
       IN (SumSqDev(subset, len, sum) \div len) * (ScaleOf(data) \div len)

\* varianceWithin(data, start, end), 0-based inclusive bounds as in the code;
\* the result is the code's value times ScaleOf(data).
varianceWithin(data, start, end) ==
  IF start >= end THEN 0
  ELSE LET subset == SubSeq(data, start + 1, end + 1)
           len == Len(subset)
           sum == SumSeq(subset)
       IN (SumSqDev(subset, len, sum) \div len) * (ScaleOf(data) \div len)

\* ------------------------------------------------------------- the tables
\* IEEE Infinity, as the fill loop uses it: above every finite value.
Infinity == -1
Less(a, b) == a # Infinity /\ (b = Infinity \/ a < b)
Plus(a, b) == IF a = Infinity \/ b = Infinity THEN Infinity ELSE a + b

\* both matrices, (dataLength+1) x (nClasses+1), filled with zeros
ZeroTables(dataLength, nc) ==
  [lowerClassLimits |-> [i \in 0..dataLength |-> [j \in 0..nc |-> 0]],
   varianceCombinations |-> [i \in 0..dataLength |-> [j \in 0..nc |-> 0]]]

\* (mutant) variance <= varianceCombinations[j][i]: a later split wins a tie
ImprovesOrTies(variance, current) == Less(variance, current) \/ variance = current

\* if (variance < varianceCombinations[j][i])
Improves(variance, current) == Less(variance, current)

\* writes of cell [j][i] in both matrices
SetCell(T, j, i, limit, variance) ==
  [lowerClassLimits |-> [T.lowerClassLimits EXCEPT ![j][i] = limit],
   varianceCombinations |-> [T.varianceCombinations EXCEPT ![j][i] = variance]]

\* for (let k = i; k <= j; k++) { ... }: the loop writes only cell [j][i] and
\* reads, besides it, only column i-1; limit and best are that cell's entries
RECURSIVE SplitLoop(_, _, _, _, _, _, _)
SplitLoop(sorted, T, i, j, k, limit, best) ==
  IF k > j THEN <<limit, best>>
  ELSE LET variance == Plus(T.varianceCombinations[k - 1][i - 1],
                            varianceWithin(sorted, k - 1, j - 1))
       IN IF Improves(variance, best)
          THEN SplitLoop(sorted, T, i, j, k + 1, k, variance)
          ELSE SplitLoop(sorted, T, i, j, k + 1, limit, best)

\* both matrices have their rows 0..dataLength.  True of every table the
\* loops hold; testing it makes the table a computed value before the next
\* iteration starts, instead of a chain of pending writes.
IsTable(T, dataLength) ==
  /\ DOMAIN T.lowerClassLimits = 0..dataLength
  /\ DOMAIN T.varianceCombinations = 0..dataLength

\* for (let j = 2; j <= dataLength; j++) { ... }
RECURSIVE PrefixLoop(_, _, _, _)
PrefixLoop(sorted, T, i, j) ==
  IF j > Len(sorted) \/ ~IsTable(T, Len(sorted)) THEN T
  ELSE IF i = 1
       THEN PrefixLoop(sorted,
                       SetCell(T, j, 1, 1, varianceWithin(sorted, 0, j - 1)),
                       i, j + 1)
       ELSE LET cell == SplitLoop(sorted, T, i, j, i,
                                  T.lowerClassLimits[j][i], Infinity)
            IN PrefixLoop(sorted, SetCell(T, j, i, cell[1], cell[2]), i, j + 1)

\* for (let i = 1; i <= nClasses; i++) { ... }
RECURSIVE ClassLoop(_, _, _, _)
ClassLoop(sorted, nc, T, i) ==
  IF i > nc \/ ~IsTable(T, Len(sorted)) THEN T
  ELSE ClassLoop(sorted, nc, PrefixLoop(sorted, SetCell(T, 1, i, 1, 0), i, 2), i + 1)

FillTables(sorted, nc) == ClassLoop(sorted, nc, ZeroTables(Len(sorted), nc), 1)

\* ------------------------------------------------------------ backtracking
\* sorted[p] for a 0-based p; undefined outside the array
ReadSorted(sorted, p) ==
  IF p \in 0..(Len(sorted) - 1) THEN sorted[p + 1] ELSE "undefined"

\* (mutant) k = lowerClassLimits[k][j]: the step back by one is missing
RECURSIVE ExtractLoopNoStepBack(_, _, _, _)
ExtractLoopNoStepBack(lcl, k, j, acc) ==
  IF j < 1 THEN acc
  ELSE ExtractLoopNoStepBack(lcl, lcl[k][j], j - 1, [acc EXCEPT ![j] = lcl[k][j]])

\* for (let j = nClasses; j >= 1; j--) { breaks[j-1] = ...; k = ... }
\* returns the lowerClassLimits[k][j] read at each j, as a sequence over j
RECURSIVE ExtractLoop(_, _, _, _)
ExtractLoop(lcl, k, j, acc) ==
  IF j < 1 THEN acc
  ELSE ExtractLoop(lcl, lcl[k][j] - 1, j - 1, [acc EXCEPT ![j] = lcl[k][j]])

classStarts(lcl, dataLength, nc) ==
  ExtractLoop(lcl, dataLength, nc, [j \in 1..nc |-> 0])

\* (mutant) breaks[nClasses] = sorted[dataLength - 1] is missing
rawBreaksNoMaximum(sorted, lcl, nc) ==
  LET starts == classStarts(lcl, Len(sorted), nc)
  IN [p \in 1..nc |->
        IF p = 1 THEN sorted[1] ELSE ReadSorted(sorted, starts[p] - 1)]

\* the breaks array before duplicates are removed (nClasses+1 entries)
rawBreaks(sorted, lcl, nc) ==
  LET starts == classStarts(lcl, Len(sorted), nc)
  IN [p \in 1..(nc + 1) |->
        IF p = 1 THEN sorted[1]
        ELSE IF p = nc + 1 THEN sorted[Len(sorted)]
        ELSE ReadSorted(sorted, starts[p] - 1)]

\* ------------------------------------------------------------- jenksBreaks
\* The whole function: every local the code computes, and the value returned.
jenksBreaks(data, nc) ==
  LET cleanData == cleanDataOf(data)
      sorted == sortedOf(cleanData)
      none == [branch |-> "empty", sorted |-> <<>>, tables |-> ZeroTables(0, 0),
               breaks |-> <<>>, result |-> <<>>]
  IN IF Len(data) = 0 \/ Len(cleanData) = 0 THEN none
     ELSE IF Len(sorted) <= nc
          THEN [none EXCEPT !.branch = "unique", !.sorted = sorted,
                            !.result = removeDuplicates(sorted)]
          ELSE LET T == FillTables(sorted, nc)
                   b == rawBreaks(sorted, T.lowerClassLimits, nc)
               IN [branch |-> "dp", sorted |-> sorted, tables |-> T,
                   breaks |-> b, result |-> removeDuplicates(b)]

\* ----------------------------------------------------------- getClassIndex
\* (mutant) the null test is missing: null then compares as the number 0
IsInvalidValueNoNullTest(value) == value.kind = "undefined" \/ value.kind = "NaN"

\* value === null || value === undefined || isNaN(value)
IsInvalidValue(value) ==
  value.kind = "null" \/ value.kind = "undefined" \/ value.kind = "NaN"

\* v >= breaks[p] for a 0-based p; false when breaks[p] is undefined
GeBreak(v, breaks, p) == p \in 0..(Len(breaks) - 1) /\ v >= breaks[p + 1]

\* v < breaks[p] for a 0-based p; false when breaks[p] is undefined
LtBreak(v, breaks, p) == p \in 0..(Len(breaks) - 1) /\ v < breaks[p + 1]

\* (mutant) value > breaks[i] && value <= breaks[i + 1]: upper-inclusive classes
InClassUpperInclusive(v, breaks, i) ==
  /\ i \in 0..(Len(breaks) - 1) /\ v > breaks[i + 1]
  /\ (i + 1) \in 0..(Len(breaks) - 1) /\ v <= breaks[i + 2]

\* (mutant) value > breaks[i] && value < breaks[i + 1]: open classes
InClassLowerExclusive(v, breaks, i) ==
  /\ i \in 0..(Len(breaks) - 1) /\ v > breaks[i + 1]
  /\ LtBreak(v, breaks, i + 1)

\* if (value >= breaks[i] && value < breaks[i + 1])
InClass(v, breaks, i) == GeBreak(v, breaks, i) /\ LtBreak(v, breaks, i + 1)

\* for (let i = 0; i < breaks.length - 1; i++) { if (...) return i; }
\* <<i>> for the index returned inside the loop, <<>> when the loop falls through
RECURSIVE ScanLoop(_, _, _)
ScanLoop(v, breaks, i) ==
  IF ~(i < Len(breaks) - 1) THEN <<>>
  ELSE IF InClass(v, breaks, i) THEN <<i>>
       ELSE ScanLoop(v, breaks, i + 1)

\* (mutant) the fallback returns breaks.length - 1
LastClassOffByOne(v, breaks) ==
  IF GeBreak(v, breaks, Len(breaks) - 2) THEN Len(breaks) - 1 ELSE 0 - 1

\* (mutant) no fallback after the loop
LastClassMissing(v, breaks) == 0 - 1

\* (mutant) value > breaks[breaks.length - 2]
LastClassStrict(v, breaks) ==
  IF (Len(breaks) - 2) \in 0..(Len(breaks) - 1) /\ v > breaks[Len(breaks) - 1]
  THEN Len(breaks) - 2 ELSE 0 - 1

\* if (value >= breaks[breaks.length - 2]) return breaks.length - 2; return -1;
LastClass(v, breaks) ==
  IF GeBreak(v, breaks, Len(breaks) - 2) THEN Len(breaks) - 2 ELSE 0 - 1

getClassIndex(value, breaks) ==
  IF IsInvalidValue(value) THEN 0 - 1
  ELSE LET found == ScanLoop(value.val, breaks, 0)
       IN IF found # <<>> THEN found[1] ELSE LastClass(value.val, breaks)

\* ------------------------------------------------------------ getICIOColor
\* [128, 128, 128]
Gray == <<Num(128), Num(128), Num(128)>>

\* (mutant) the breaks.length < 2 test is missing
IsUncolourableNoLengthTest(icio, breaks) ==
  icio.kind = "null" \/ icio.kind = "NaN" \/ icio.kind = "undefined"

\* icio === null || isNaN(icio) || !breaks || breaks.length < 2
\* (isNaN(undefined) is true; breaks is an array here, so !breaks is false)
IsUncolourable(icio, breaks) ==
  icio.kind = "null" \/ icio.kind = "NaN" \/ icio.kind = "undefined" \/ Len(breaks) < 2

\* (mutant) classIndex >= colors.length - 1: the last colour is never used
IndexOutOfPaletteOffByOne(index, colors) ==
  index = 0 - 1 \/ index >= Len(colors) - 1

\* classIndex === -1 || classIndex >= colors.length
IndexOutOfPalette(index, colors) == index = 0 - 1 \/ index >= Len(colors)

getICIOColor(icio, breaks, colors) ==
  IF IsUncolourable(icio, breaks) THEN Gray
  ELSE LET index == getClassIndex(icio, breaks)
       IN IF IndexOutOfPalette(index, colors) THEN Gray ELSE colors[index + 1]

\* ---------------------------------------------------- generateColorPalette
\* The code computes in IEEE-754 doubles.  For 0 <= i <= d the quotient i / d
\* is rounded to a 53-bit significand; the products below are rounded once
\* more.  Both roundings are followed exactly, with small integers: the
\* rounded quotient is i/d - rho / (d * 2^(53+e)), where 2^-(e+1) <= i/d < 2^-e.
SignificandBits == 53

RECURSIVE Pow2(_)
Pow2(n) == IF n <= 0 THEN 1 ELSE 2 * Pow2(n - 1)

\* 2^n modulo m
RECURSIVE Pow2Mod(_, _)
Pow2Mod(n, m) == IF n <= 0 THEN 1 % m ELSE (2 * Pow2Mod(n - 1, m)) % m

\* the least e >= 0 with i * 2^(e+1) >= d (i >= 1)
RECURSIVE BinadeFrom(_, _, _)
BinadeFrom(i, d, e) == IF i * Pow2(e + 1) >= d THEN e ELSE BinadeFrom(i, d, e + 1)

Binade(i, d) == IF i = 0 THEN 0 ELSE BinadeFrom(i, d, 0)

\* rho: the signed remainder of the rounded division i / d (round to nearest)
DivisionError(i, d) ==
  LET rem == (i * Pow2Mod(SignificandBits + Binade(i, d), d)) % d
  IN IF 2 * rem <= d THEN rem ELSE rem - d

\* the least K >= 0 with x <= 2^K (x >= 1)
RECURSIVE CeilLog2From(_, _)
CeilLog2From(x, K) == IF x <= Pow2(K) THEN K ELSE CeilLog2From(x, K + 1)

\* Math.floor(localRatio * c), where localRatio is the double num/d minus
\* 2*rho / (d * 2^(53+e)): the exact product is c*num/d minus a tiny error,
\* and the rounded product falls below an integer c*num/d only if that error
\* exceeds half the spacing of the doubles just below it.
FloorOfProduct(num, d, c, rho, e) ==
  LET X == c * num
      x == X \div d
  IN IF X % d # 0 \/ rho <= 0 THEN x
     ELSE IF 4 * c * rho <= d * Pow2(e + CeilLog2From(x, 0)) THEN x ELSE x - 1

\* the body of the loop for index i: [r, g, b]
\* numClasses = 1: ratio = 0 / 0 is NaN, NaN < 0.5 is false, and the second
\* branch computes Math.floor(NaN) = NaN for r and g
paletteEntry(i, numClasses) ==
  LET d == numClasses - 1
      rho == DivisionError(i, d)
      e == Binade(i, d)
  IN IF d = 0 THEN <<NaN, NaN, Num(0)>>
     ELSE IF 2 * i < d
          THEN <<Num(FloorOfProduct(2 * i, d, 204, rho, e)), Num(200), Num(0)>>
          ELSE <<Num(204 + FloorOfProduct(2 * i - d, d, 51, rho, e)),
                 Num(200 - FloorOfProduct(2 * i - d, d, 200, rho, e)), Num(0)>>

\* (mutant) for (let i = 1; i < numClasses; i++): the first triple is missing
generateColorPaletteSkipFirst(numClasses) ==
  [p \in 1..(numClasses - 1) |-> paletteEntry(p, numClasses)]

\* for (let i = 0; i < numClasses; i++) { ...; colors.push([r, g, b]); }
generateColorPalette(numClasses) ==
  [p \in 1..numClasses |-> paletteEntry(p - 1, numClasses)]

\* ------------------------------------------------- reads outside arrays
\* the reads of array name at 0-based indices outside 0..len-1
OutsideOf(name, reads, len) ==
  {<<name, p>> : p \in {q \in reads : q \notin 0..(len - 1)}}

\* the indices of sorted read while the breaks are extracted
sortedReads(sorted, lcl, nc) ==
  {classStarts(lcl, Len(sorted), nc)[j] - 1 : j \in 1..nc}
    \cup {0, Len(sorted) - 1}

jenksBreaksOutside(r, nc) ==
  IF r.branch = "dp"
  THEN OutsideOf("sorted", sortedReads(r.sorted, r.tables.lowerClassLimits, nc),
                 Len(r.sorted))
  ELSE {}

\* the indices of breaks read by the loop: breaks[i], and breaks[i + 1] when
\* value >= breaks[i] holds
RECURSIVE ScanReads(_, _, _)
ScanReads(v, breaks, i) ==
  IF ~(i < Len(breaks) - 1) THEN {}
  ELSE {i} \cup (IF GeBreak(v, breaks, i) THEN {i + 1} ELSE {})
           \cup (IF InClass(v, breaks, i) THEN {} ELSE ScanReads(v, breaks, i + 1))

\* the indices of breaks read by getClassIndex: the loop's, and
\* breaks.length - 2 when the loop falls through
getClassIndexReads(value, breaks) ==
  IF IsInvalidValue(value) THEN {}
  ELSE ScanReads(value.val, breaks, 0)
         \cup (IF ScanLoop(value.val, breaks, 0) = <<>>
               THEN {Len(breaks) - 2} ELSE {})

getClassIndexOutside(value, breaks) ==
  OutsideOf("breaks", getClassIndexReads(value, breaks), Len(breaks))

\* getICIOColor reads breaks through getClassIndex, and colors[classIndex]
getICIOColorOutside(icio, breaks, colors) ==
  IF IsUncolourable(icio, breaks) THEN {}
  ELSE getClassIndexOutside(icio, breaks)
         \cup (IF IndexOutOfPalette(getClassIndex(icio, breaks), colors) THEN {}
               ELSE OutsideOf("colors", {getClassIndex(icio, breaks)}, Len(colors)))

\* ------------------------------------------------------------ the machine
VARIABLES
  pc,          \* "ready" before a call, "done" after it
  op,          \* the function that was called ("none" before the call)
  dataKind,    \* jenksBreaks: "array", or "null" / "undefined" for no array
  data,        \* jenksBreaks: the caller's array
  nClasses,    \* jenksBreaks: the requested number of classes
  run,         \* jenksBreaks: the locals and the return value of the call
  value,       \* getClassIndex, getICIOColor: the value argument
  breaksArg,   \* getClassIndex, getICIOColor: the breaks argument
  classIndex,  \* getClassIndex: the value returned ("none" before the call)
  numClasses,  \* generateColorPalette: the argument
  palette,     \* generateColorPalette: the value returned; getICIOColor: colors
  color,       \* getICIOColor: the value returned (<<>> before the call)
  outside,     \* the reads the call made outside an array, as <<array, index>>
  loadPc,          \* App: where loadCSVData stands
  geoJsonData,     \* App state: null, or the features (each by its icio)
  icioRange,       \* App state: [min, max]
  loading,         \* App state
  error,           \* App state: "null" or the message
  hoveredObject,   \* App state: the hovered feature, by its index (-1: null)
  cursor,          \* App state
  clickedIndex,    \* App state: index of the clicked feature (-1: null)
  calculatorOpen,  \* App state
  selectedCityData,\* App state: the feature whose data is shown (-1: null)
  naturalBreaks,   \* App: the value held by the naturalBreaks memo
  colorPalette,    \* App: the value held by the colorPalette memo
  computations,    \* App: how often each of the two memos ran its function
  layer            \* App: icon, size and colour of each feature in iconLayer

coreVars == <<pc, op, dataKind, data, nClasses, run, value, breaksArg,
              classIndex, numClasses, palette, color, outside>>

appVars == <<loadPc, geoJsonData, icioRange, loading, error, hoveredObject,
             cursor, clickedIndex, calculatorOpen, selectedCityData,
             naturalBreaks, colorPalette, computations, layer>>

vars == <<coreVars, appVars>>

\* null where an array or object is expected, and an array
NullArray == [kind |-> "null", val |-> <<>>]
Arr(a) == [kind |-> "array", val |-> a]

\* null where an index or a feature is expected
NullIndex == 0 - 1

\* the App as useState initialises it, with both memos run by the first render
AppInitialState ==
  /\ loadPc = "mounted"
  /\ geoJsonData = NullArray
  /\ icioRange = <<0, 1>>
  /\ loading = FALSE
  /\ error = "null"
  /\ hoveredObject = NullIndex
  /\ cursor = "default"
  /\ clickedIndex = NullIndex
  /\ calculatorOpen = FALSE
  /\ selectedCityData = NullIndex
  /\ naturalBreaks = NullArray
  /\ colorPalette = <<>>
  /\ computations = [naturalBreaks |-> 1, colorPalette |-> 1]
  /\ layer = <<>>

NoRun == [branch |-> "none", sorted |-> <<>>, tables |-> ZeroTables(0, 0),
          breaks |-> <<>>, result |-> <<>>]

AsNumbers(s) == [p \in 1..Len(s) |-> Num(s[p])]

\* a sample of ten evenly spaced values, passed through the tables with k = 3
ScenarioA == <<1, 2, 3, 4, 5, 6, 7, 8, 9, 10>>

\* arrays of numbers up to MaxLen, short arrays with invalid entries, and
\* the ten-value sample
RawInputs ==
  {AsNumbers(s) : s \in SeqsUpTo(0..MaxVal, MaxLen)}
    \cup SeqsUpTo(Numbers \cup Invalids, MaxRawLen)
    \cup {AsNumbers(ScenarioA)}

\* !data
IsMissing(kind) == kind = "null" \/ kind = "undefined"

\* (mutant) the sample is filtered and sorted in the caller's array
callerArraySortedInPlace(d) == AsNumbers(sortedOf(cleanDataOf(d)))

\* the caller's array after the call: data.filter(...) and [...cleanData]
\* build new arrays, and no statement assigns to data or to an entry of it
callerArray(d) == d

\* the arguments of the functions that are not called
NoJenksArgs == dataKind = "array" /\ data = <<>> /\ nClasses = 1
NoClassifyArgs == value = Null /\ breaksArg = <<>>
NoPaletteArgs == numClasses = 0 /\ palette = <<>>
NoResults ==
  /\ pc = "ready" /\ op = "none" /\ run = NoRun /\ classIndex = "none"
  /\ color = <<>> /\ outside = {}

\* ---- jenksBreaks(data, nClasses) on every bounded input
Init ==
  /\ NoResults
  /\ AppInitialState
  /\ \/ dataKind = "array" /\ data \in RawInputs
     \/ dataKind \in {"null", "undefined"} /\ data = <<>>
  /\ nClasses \in 1..MaxK
  /\ NoClassifyArgs
  /\ NoPaletteArgs

JenksBreaks ==
  /\ pc = "ready"
  /\ run' = jenksBreaks(IF IsMissing(dataKind) THEN <<>> ELSE data, nClasses)
  /\ data' = callerArray(data)
  /\ outside' = jenksBreaksOutside(run', nClasses)
  /\ pc' = "done"
  /\ op' = "jenksBreaks"
  /\ UNCHANGED <<dataKind, nClasses, value, breaksArg, classIndex, numClasses,
                 palette, color>>
  /\ UNCHANGED appVars

Next == JenksBreaks

Spec == Init /\ [][Next]_vars

\* ---- getClassIndex(value, breaks) on every bounded input
ClassValues == {Num(v) : v \in (0 - 1)..(MaxVal + 1)} \cup Invalids

InitClassify ==
  /\ NoResults
  /\ AppInitialState
  /\ NoJenksArgs
  /\ value \in ClassValues
  /\ breaksArg \in SeqsUpTo(0..MaxVal, MaxBreaks)
  /\ NoPaletteArgs

GetClassIndex ==
  /\ pc = "ready"
  /\ classIndex' = getClassIndex(value, breaksArg)
  /\ outside' = getClassIndexOutside(value, breaksArg)
  /\ pc' = "done"
  /\ op' = "getClassIndex"
  /\ UNCHANGED <<dataKind, data, nClasses, run, value, breaksArg, numClasses,
                 palette, color>>
  /\ UNCHANGED appVars

NextClassify == GetClassIndex

SpecClassify == InitClassify /\ [][NextClassify]_vars

\* ---- getICIOColor(icio, breaks, colors) on every bounded input, with the
\* palettes of generateColorPalette as colors
InitColor ==
  /\ NoResults
  /\ AppInitialState
  /\ NoJenksArgs
  /\ value \in ClassValues
  /\ breaksArg \in SeqsUpTo(0..MaxVal, MaxBreaks)
  /\ numClasses \in 0..MaxColors
  /\ palette = generateColorPalette(numClasses)

GetICIOColor ==
  /\ pc = "ready"
  /\ color' = getICIOColor(value, breaksArg, palette)
  /\ outside' = getICIOColorOutside(value, breaksArg, palette)
  /\ pc' = "done"
  /\ op' = "getICIOColor"
  /\ UNCHANGED <<dataKind, data, nClasses, run, value, breaksArg, classIndex,
                 numClasses, palette>>
  /\ UNCHANGED appVars

NextColor == GetICIOColor

SpecColor == InitColor /\ [][NextColor]_vars

\* ---- generateColorPalette(numClasses) for every bounded class count
InitPalette ==
  /\ NoResults
  /\ AppInitialState
  /\ NoJenksArgs
  /\ NoClassifyArgs
  /\ numClasses \in 0..MaxPaletteClasses
  /\ palette = <<>>

GenerateColorPalette ==
  /\ pc = "ready"
  /\ palette' = generateColorPalette(numClasses)
  /\ outside' = {}
  /\ pc' = "done"
  /\ op' = "generateColorPalette"
  /\ UNCHANGED <<dataKind, data, nClasses, run, value, breaksArg, classIndex,
                 numClasses, color>>
  /\ UNCHANGED appVars

NextPalette == GenerateColorPalette

SpecPalette == InitPalette /\ [][NextPalette]_vars

\* ---- jenksBreaks on raw arrays that also hold +Infinity and -Infinity.
\* nClasses is at least the array's length, so the call returns through the
\* sorted.length <= nClasses branch and the tables are not filled.
RawEntries == Numbers \cup Invalids \cup {PosInfinity, NegInfinity}

InitRaw ==
  /\ NoResults
  /\ AppInitialState
  /\ dataKind = "array"
  /\ data \in SeqsUpTo(RawEntries, MaxRawLen)
  /\ nClasses = MaxRawLen
  /\ NoClassifyArgs
  /\ NoPaletteArgs

SpecRaw == InitRaw /\ [][Next]_vars

\* ---- the three functions of the core, each on its own bounded inputs
InitCore == Init \/ InitClassify \/ InitColor

NextCore == JenksBreaks \/ GetClassIndex \/ GetICIOColor

SpecCore == InitCore /\ [][NextCore]_vars

\* ==================================================================== App
\* the number of classes the App asks for
AppClasses == 12

\* v !== null && !isNaN(v)
IsValidIcio(v) == v.kind # "null" /\ v.kind # "NaN" /\ v.kind # "undefined"

\* features.map(f => f.properties.icio).filter(v => v !== null && !isNaN(v))
RECURSIVE icioValuesOf(_)
icioValuesOf(features) ==
  IF features = <<>> THEN <<>>
  ELSE IF IsValidIcio(Head(features))
       THEN <<Head(features).val>> \o icioValuesOf(Tail(features))
       ELSE icioValuesOf(Tail(features))

\* Math.min(...icioValues), Math.max(...icioValues)
MinOf(a) == CHOOSE v \in {a[p] : p \in 1..Len(a)} : \A q \in 1..Len(a) : v <= a[q]
MaxOf(a) == CHOOSE v \in {a[p] : p \in 1..Len(a)} : \A q \in 1..Len(a) : v >= a[q]

\* the function of the naturalBreaks memo
computeNaturalBreaks(geo) ==
  IF geo.kind = "null" \/ Len(geo.val) = 0 THEN NullArray
  ELSE IF Len(icioValuesOf(geo.val)) = 0 THEN NullArray
       ELSE Arr(jenksBreaks(AsNumbers(icioValuesOf(geo.val)), AppClasses).result)

\* the function of the colorPalette memo
computeColorPalette(breaks) ==
  IF breaks.kind = "null" \/ Len(breaks.val) < 2 THEN <<>>
  ELSE generateColorPalette(Len(breaks.val) - 1)

\* (mutant) the naturalBreaks memo also depends on hoveredObject
naturalBreaksDepsWithHover == <<geoJsonData, hoveredObject>>

\* the dependency list of the naturalBreaks memo: [geoJsonData]
naturalBreaksDeps == <<geoJsonData>>

\* getSize: clickedIndex === index ? 54 : 36
getSize(index, clicked) == IF clicked = index THEN 54 ELSE 36

White == <<Num(255), Num(255), Num(255), Num(255)>>

\* getColor: white on hover or click, else the palette colour with alpha 255
getColor(icio, index, breaks, colors, hovered, clicked) ==
  IF (hovered # NullIndex /\ hovered = index) \/ clicked = index THEN White
  ELSE getICIOColor(icio, breaks, colors) \o <<Num(255)>>

\* the iconLayer memo: null (no entry) without data, breaks or colours, else
\* getIcon, getSize and getColor of every feature
iconLayer(geo, breaks, colors, hovered, clicked) ==
  IF geo.kind = "null" \/ Len(geo.val) = 0 \/ breaks.kind = "null" \/ Len(colors) = 0
  THEN <<>>
  ELSE [p \in 1..Len(geo.val) |->
          [icon |-> getICIOColor(geo.val[p], breaks.val, colors),
           size |-> getSize(p - 1, clicked),
           color |-> getColor(geo.val[p], p - 1, breaks.val, colors, hovered, clicked)]]

\* the render that follows a state update: a memo runs its function only
\* when an entry of its dependency list is another value than before
\* (the colorPalette memo depends on naturalBreaks, a new array whenever the
\* naturalBreaks memo ran and did not return null again)
Rerender ==
  /\ naturalBreaks' = IF naturalBreaksDeps' # naturalBreaksDeps
                      THEN computeNaturalBreaks(geoJsonData')
                      ELSE naturalBreaks
  /\ LET breaksRan == naturalBreaksDeps' # naturalBreaksDeps
         paletteRan == breaksRan /\ ~(naturalBreaks.kind = "null"
                                       /\ naturalBreaks'.kind = "null")
     IN /\ colorPalette' = IF paletteRan THEN computeColorPalette(naturalBreaks')
                           ELSE colorPalette
        /\ computations' =
             [naturalBreaks |-> computations.naturalBreaks + (IF breaksRan THEN 1 ELSE 0),
              colorPalette |-> computations.colorPalette + (IF paletteRan THEN 1 ELSE 0)]
  /\ layer' = iconLayer(geoJsonData', naturalBreaks', colorPalette',
                        hoveredObject', clickedIndex')

\* the feature collections convertToGeoJSON may return, each feature given by
\* its icio: short ones over all kinds of value, and some with more than
\* AppClasses values
ManyDistinct == <<0, 1, 2, 3, 4, 5, 6, 7, 8, 9, 10, 11, 12>>
ManyWithOutlier == <<0, 1, 2, 3, 4, 5, 6, 7, 8, 9, 10, 11, 12, 40>>
ManyEqual == <<0, 0, 0, 0, 0, 0, 0, 0, 0, 0, 0, 0, 5>>

Datasets ==
  SeqsUpTo({Num(v) : v \in 0..MaxAppVal} \cup {Null, NaN}, MaxFeatures)
    \cup {AsNumbers(ManyDistinct), AsNumbers(ManyWithOutlier) \o <<Null>>,
          <<NaN>> \o AsNumbers(ManyEqual)}

\* (mutant) there is no finally block
FinallyMissing(l) == l

\* finally { setLoading(false); }
Finally(l) == FALSE

\* catch (err) { setError(`Error loading data: ${err.message}`); } finally ...
Fails(message) ==
  /\ error' = message
  /\ loading' = Finally(loading)
  /\ loadPc' = "failed"
  /\ UNCHANGED <<geoJsonData, icioRange>>

UiState == <<hoveredObject, cursor, clickedIndex, calculatorOpen, selectedCityData>>

\* useEffect(() => { loadCSVData(); }): setLoading(true); setError(null);
\* and the fetch is under way
LoadStart ==
  /\ loadPc = "mounted"
  /\ loading' = TRUE
  /\ error' = "null"
  /\ loadPc' = "fetch"
  /\ UNCHANGED <<geoJsonData, icioRange, UiState>>
  /\ Rerender
  /\ UNCHANGED coreVars

\* await fetch('/ICIO.csv'); if (!response.ok) throw ...
FetchSettles ==
  /\ loadPc = "fetch"
  /\ \E outcome \in {"ok", "notOk", "rejected"} :
        IF outcome = "ok"
        THEN loadPc' = "text" /\ UNCHANGED <<geoJsonData, icioRange, loading, error>>
        ELSE IF outcome = "notOk"
             THEN Fails("Error loading data: Failed to load CSV file")
             ELSE Fails("Error loading data: fetch")
  /\ UNCHANGED UiState
  /\ Rerender
  /\ UNCHANGED coreVars

\* await response.text(); the Blob and the File are built
TextSettles ==
  /\ loadPc = "text"
  /\ \E outcome \in {"ok", "rejected"} :
        IF outcome = "ok"
        THEN loadPc' = "parse" /\ UNCHANGED <<geoJsonData, icioRange, loading, error>>
        ELSE Fails("Error loading data: text")
  /\ UNCHANGED UiState
  /\ Rerender
  /\ UNCHANGED coreVars

\* await parseCSV(file); convertToGeoJSON; setGeoJsonData; setIcioRange when
\* there is a valid value; finally setLoading(false)
ParseSettles ==
  /\ loadPc = "parse"
  /\ \/ Fails("Error loading data: parse")
     \/ Fails("Error loading data: convert")
     \/ \E features \in Datasets :
           /\ geoJsonData' = Arr(features)
           /\ icioRange' = IF Len(icioValuesOf(features)) > 0
                           THEN <<MinOf(icioValuesOf(features)),
                                  MaxOf(icioValuesOf(features))>>
                           ELSE icioRange
           /\ loading' = Finally(loading)
           /\ loadPc' = "loaded"
           /\ UNCHANGED error
  /\ UNCHANGED UiState
  /\ Rerender
  /\ UNCHANGED coreVars

LoadState == <<loadPc, geoJsonData, icioRange, loading, error>>

\* iconLayer onHover, with the pointer over a feature or over none
OnHover ==
  /\ Len(layer) > 0
  /\ \E object \in {NullIndex} \cup 0..(Len(layer) - 1) :
        /\ hoveredObject' = object
        /\ cursor' = IF object # NullIndex THEN "pointer" ELSE "default"
  /\ UNCHANGED <<LoadState, clickedIndex, calculatorOpen, selectedCityData>>
  /\ Rerender
  /\ UNCHANGED coreVars

\* iconLayer onClick on a feature
OnClick ==
  /\ Len(layer) > 0
  /\ \E index \in 0..(Len(layer) - 1) :
        IF clickedIndex = index
        THEN /\ clickedIndex' = NullIndex
             /\ UNCHANGED <<calculatorOpen, selectedCityData>>
        ELSE /\ clickedIndex' = index
             /\ selectedCityData' = index
             /\ calculatorOpen' = TRUE
  /\ UNCHANGED <<LoadState, hoveredObject, cursor>>
  /\ Rerender
  /\ UNCHANGED coreVars

\* ICIOCalculator onClose
OnClose ==
  /\ calculatorOpen
  /\ calculatorOpen' = FALSE
  /\ selectedCityData' = NullIndex
  /\ UNCHANGED <<LoadState, hoveredObject, cursor, clickedIndex>>
  /\ Rerender
  /\ UNCHANGED coreVars

InitApp ==
  /\ NoResults
  /\ NoJenksArgs
  /\ NoClassifyArgs
  /\ NoPaletteArgs
  /\ AppInitialState

LoadStep == LoadStart \/ FetchSettles \/ TextSettles \/ ParseSettles

NextApp == LoadStart \/ FetchSettles \/ TextSettles \/ ParseSettles
             \/ OnHover \/ OnClick \/ OnClose

SpecApp == InitApp /\ [][NextApp]_vars

\* the effect runs after the first render and every awaited promise settles
SpecAppFair == SpecApp /\ WF_vars(LoadStep)

\* ================================================================ properties
\* The prepared sample as a set, its size and its extremes, read off the input.
ValidPositions == {p \in 1..Len(data) : data[p].kind = "number"}
SampleSet == {data[p].val : p \in ValidPositions}
SampleSize == Cardinality(ValidPositions)
UniqueCount == Cardinality(SampleSet)
SampleMin == CHOOSE v \in SampleSet : \A w \in SampleSet : v <= w
SampleMax == CHOOSE v \in SampleSet : \A w \in SampleSet : v >= w

NonDecreasing(s) == \A p \in 1..(Len(s) - 1) : s[p] <= s[p + 1]
StrictlyAscending(s) == \A p \in 1..(Len(s) - 1) : s[p] < s[p + 1]

RECURSIVE SqSum(_)
SqSum(s) == IF s = <<>> THEN 0 ELSE Head(s) * Head(s) + SqSum(Tail(s))

\* Sum of squared deviations from the mean of group g, times scale
\* (sum x^2 - (sum x)^2 / len, with len dividing scale).
GroupSSD(g, scale) ==
  IF g = <<>> THEN 0
  ELSE (scale \div Len(g)) * (Len(g) * SqSum(g) - SumSeq(g) * SumSeq(g))

\* The partitions of 1..n into nc non-empty contiguous groups, each given by
\* the 1-based start indices of its groups.
ContiguousPartitions(n, nc) ==
  {st \in [1..nc -> 1..n] : st[1] = 1 /\ \A j \in 1..(nc - 1) : st[j] < st[j + 1]}

GroupOf(sorted, st, j) ==
  SubSeq(sorted, st[j], IF j = Len(st) THEN Len(sorted) ELSE st[j + 1] - 1)

RECURSIVE CostUpTo(_, _, _)
CostUpTo(sorted, st, j) ==
  IF j = 0 THEN 0
  ELSE GroupSSD(GroupOf(sorted, st, j), ScaleOf(sorted)) + CostUpTo(sorted, st, j - 1)

PartitionCost(sorted, st) == CostUpTo(sorted, st, Len(st))

\* the least total within-group squared deviation any partition attains
MinCost(sorted, nc) ==
  LET costs == {PartitionCost(sorted, st) : st \in ContiguousPartitions(Len(sorted), nc)}
  IN CHOOSE c \in costs : \A d \in costs : c <= d

\* the start indices the backtracking of the finished call read
ChosenStarts == classStarts(run.tables.lowerClassLimits, Len(run.sorted), nClasses)

\* C1: for a sample with more than k values, the k start indices recovered by
\* backtracking from (n, k) form a partition of the sorted sample into k
\* non-empty contiguous groups, and its total within-group sum of squared
\* deviations is the minimum over all such partitions.
C1_DpSegmentationOptimal ==
  (pc = "done" /\ SampleSize > nClasses) =>
     /\ run.branch = "dp"
     /\ ChosenStarts \in ContiguousPartitions(Len(run.sorted), nClasses)
     /\ PartitionCost(run.sorted, ChosenStarts) = MinCost(run.sorted, nClasses)

\* a three-class run over four values where the optimum costs something and
\* other partitions cost more
C1_Witness ==
  /\ pc = "done" /\ run.branch = "dp" /\ nClasses = 3 /\ SampleSize = 4
  /\ PartitionCost(run.sorted, ChosenStarts) > 0
  /\ \E st \in ContiguousPartitions(4, 3) :
        PartitionCost(run.sorted, st) > PartitionCost(run.sorted, ChosenStarts)

\* The sample's values that getClassIndex puts in class c of the returned breaks.
RECURSIVE ClassMembers(_, _, _)
ClassMembers(sorted, breaks, c) ==
  IF sorted = <<>> THEN <<>>
  ELSE IF getClassIndex(Num(Head(sorted)), breaks) = c
       THEN <<Head(sorted)>> \o ClassMembers(Tail(sorted), breaks, c)
       ELSE ClassMembers(Tail(sorted), breaks, c)

RECURSIVE ClassCostUpTo(_, _, _)
ClassCostUpTo(sorted, breaks, c) ==
  IF c < 0 THEN 0
  ELSE GroupSSD(ClassMembers(sorted, breaks, c), ScaleOf(sorted))
       + ClassCostUpTo(sorted, breaks, c - 1)

\* total within-class squared deviation of the classes the breaks define
ClassesCost(sorted, breaks) == ClassCostUpTo(sorted, breaks, Len(breaks) - 2)

\* C2: when the unique-value count exceeds k, grouping the sample by
\* getClassIndex(value, jenksBreaks(sample, k)) gives every value a class and
\* the classes' total within-group squared deviation equals the minimum over
\* the partitions into k contiguous groups.
C2_ClassesMinimiseVariance ==
  (pc = "done" /\ UniqueCount > nClasses) =>
     /\ \A v \in SampleSet : getClassIndex(Num(v), run.result) >= 0
     /\ ClassesCost(run.sorted, run.result) = MinCost(run.sorted, nClasses)

\* C3: when the unique-value count exceeds k, jenksBreaks returns exactly
\* k+1 boundaries.
C3_ExactlyKPlusOneBreaks ==
  (pc = "done" /\ UniqueCount > nClasses) => Len(run.result) = nClasses + 1

\* C4: for a non-empty sample with unique-value count > k the returned
\* sequence has at most k+1 entries, is ascending, starts at min(sample) and
\* ends at max(sample).
C4_BreaksBounded ==
  (pc = "done" /\ SampleSize > 0 /\ UniqueCount > nClasses) =>
     /\ Len(run.result) <= nClasses + 1
     /\ Len(run.result) >= 1
     /\ NonDecreasing(run.result)
     /\ run.result[1] = SampleMin
     /\ run.result[Len(run.result)] = SampleMax

\* a dynamic-programming run returning all k+1 boundaries, k >= 2
C4_Witness ==
  /\ pc = "done" /\ run.branch = "dp" /\ UniqueCount > nClasses /\ nClasses >= 2
  /\ Len(run.result) = nClasses + 1
  /\ run.result[1] = SampleMin /\ run.result[Len(run.result)] = SampleMax
  /\ SampleMin < SampleMax

\* the sample's unique values in ascending order
RECURSIVE AscendingOf(_)
AscendingOf(S) ==
  IF S = {} THEN <<>>
  ELSE LET m == CHOOSE v \in S : \A w \in S : v <= w
       IN <<m>> \o AscendingOf(S \ {m})

\* C5: whenever the sample has at most k unique values (however many values
\* it has), jenksBreaks returns exactly the ascending sequence of the unique
\* values; sample [5,5,5] with k = 3 returns [5].
C5_FewUniqueValues ==
  /\ (pc = "done" /\ UniqueCount <= nClasses) => run.result = AscendingOf(SampleSet)
  /\ (pc = "done" /\ data = <<Num(5), Num(5), Num(5)>> /\ nClasses = 3)
        => run.result = <<5>>

\* more values than classes but no more unique values than classes: the
\* dynamic program runs and the unique values come back
C5_Witness ==
  /\ pc = "done" /\ SampleSize > nClasses /\ UniqueCount <= nClasses
  /\ UniqueCount >= 2 /\ run.branch = "dp"
  /\ run.result = AscendingOf(SampleSet)

\* ---- getClassIndex
IsNumber(x) == x.kind = "number"
LastIndex == Len(breaksArg) - 2      \* m-2, the index of the last class

\* C6: for ascending breaks with at least 2 entries every numeric value in
\* [breaks[0], breaks[last]] maps to an index in [0, len-2], and every null,
\* NaN or below-breaks[0] value maps to -1.
C6_TotalOverRange ==
  (pc = "done" /\ Len(breaksArg) >= 2 /\ NonDecreasing(breaksArg)) =>
     /\ (IsNumber(value) /\ breaksArg[1] <= value.val
           /\ value.val <= breaksArg[Len(breaksArg)])
          => classIndex \in 0..LastIndex
     /\ (~IsNumber(value) \/ value.val < breaksArg[1]) => classIndex = 0 - 1

\* the maximum of a three-class sequence, classified by the call
C6_Witness ==
  /\ pc = "done" /\ Len(breaksArg) = 3 /\ StrictlyAscending(breaksArg)
  /\ IsNumber(value) /\ value.val = breaksArg[3] /\ classIndex = 1

\* C7: for a fixed non-decreasing break sequence and numeric values
\* v1 <= v2, getClassIndex(v1, breaks) <= getClassIndex(v2, breaks).
C7_Monotonic ==
  (pc = "done" /\ NonDecreasing(breaksArg) /\ IsNumber(value)) =>
     \A v2 \in {c \in ClassValues : IsNumber(c)} :
        /\ value.val <= v2.val => classIndex <= getClassIndex(v2, breaksArg)
        /\ v2.val <= value.val => getClassIndex(v2, breaksArg) <= classIndex

\* a value in the middle class, with values in the classes below and above
C7_Witness ==
  /\ pc = "done" /\ Len(breaksArg) = 3 /\ StrictlyAscending(breaksArg)
  /\ IsNumber(value) /\ classIndex = 1
  /\ \E lo, hi \in {c \in ClassValues : IsNumber(c)} :
        /\ lo.val < value.val /\ getClassIndex(lo, breaksArg) = 0
        /\ hi.val > value.val /\ getClassIndex(hi, breaksArg) = 1

\* the classes 0..m-2 whose half-open interval holds v
ClassesHolding(v) ==
  {i \in 0..LastIndex : breaksArg[i + 1] <= v /\ v < breaksArg[i + 2]}

\* C8: with at least 2 breaks and a numeric value, the first i in 0..m-2 with
\* breaks[i] <= value < breaks[i+1] is returned when there is one; a value
\* equal to an interior boundary breaks[i] of strictly ascending breaks gets
\* class i, never i-1; and (non-decreasing breaks) a value that passes the
\* last-class test value >= breaks[m-2] gets class m-2 whether the scan or
\* the fallback returns it.
C8_LowerInclusive ==
  (pc = "done" /\ Len(breaksArg) >= 2 /\ IsNumber(value)) =>
     /\ \A i \in ClassesHolding(value.val) :
           (\A h \in ClassesHolding(value.val) : i <= h) => classIndex = i
     /\ StrictlyAscending(breaksArg) =>
           \A i \in 1..(Len(breaksArg) - 2) :
              value.val = breaksArg[i + 1] => classIndex = i
     /\ (NonDecreasing(breaksArg) /\ value.val >= breaksArg[LastIndex + 1])
           => classIndex = LastIndex

\* a value equal to the interior boundary of a three-class sequence
C8_Witness ==
  /\ pc = "done" /\ Len(breaksArg) = 3 /\ StrictlyAscending(breaksArg)
  /\ IsNumber(value) /\ value.val = breaksArg[2] /\ classIndex = 1

\* C9: when the scan finds no class, a numeric value >= breaks[m-2] gets the
\* last class m-2 (so the maximum breaks[m-1] and any value above it are
\* classified), and a value below breaks[0] of a non-decreasing sequence
\* yields -1.
C9_LastClassFallback ==
  (pc = "done" /\ Len(breaksArg) >= 2 /\ IsNumber(value)) =>
     /\ (ClassesHolding(value.val) = {} /\ value.val >= breaksArg[LastIndex + 1])
           => classIndex = LastIndex
     /\ (NonDecreasing(breaksArg) /\ value.val >= breaksArg[Len(breaksArg)])
           => classIndex = LastIndex
     /\ (NonDecreasing(breaksArg) /\ value.val < breaksArg[1])
           => classIndex = 0 - 1

\* a value above the maximum, which no interval of the scan holds
C9_Witness ==
  /\ pc = "done" /\ Len(breaksArg) = 3 /\ StrictlyAscending(breaksArg)
  /\ IsNumber(value) /\ value.val > breaksArg[3]
  /\ ClassesHolding(value.val) = {} /\ classIndex = 1

\* C10: getClassIndex returns -1 whenever value is null, undefined or NaN,
\* and whenever breaks has fewer than 2 entries, for every value.
C10_InvalidGivesMinusOne ==
  pc = "done" =>
     /\ value \in {Null, Undefined, NaN} => classIndex = 0 - 1
     /\ Len(breaksArg) < 2 => classIndex = 0 - 1

\* null against breaks that hold 0, the number null would coerce to
C10_Witness ==
  /\ pc = "done" /\ value = Null /\ Len(breaksArg) >= 2
  /\ breaksArg[1] = 0 /\ breaksArg[2] > 0 /\ classIndex = 0 - 1

\* ---- getICIOColor
\* C11: getICIOColor returns the gray (128,128,128) if value is null or NaN,
\* if breaks has fewer than 2 entries (whatever the value and the palette),
\* or if getClassIndex yields -1 or an index >= the palette's length; in every
\* other case it returns palette[getClassIndex(value, breaks)].
C11_GrayOrPaletteEntry ==
  (pc = "done" /\ op = "getICIOColor") =>
     LET index == getClassIndex(value, breaksArg)
     IN IF \/ value \in {Null, NaN}
           \/ Len(breaksArg) < 2
           \/ index = 0 - 1
           \/ index >= Len(palette)
        THEN color = Gray
        ELSE color = palette[index + 1]

\* a value of the last class of three breaks takes the last of two colours
C11_Witness ==
  /\ pc = "done" /\ op = "getICIOColor" /\ IsNumber(value)
  /\ Len(breaksArg) = 3 /\ StrictlyAscending(breaksArg) /\ Len(palette) = 2
  /\ getClassIndex(value, breaksArg) = 1
  /\ color = palette[2] /\ color # Gray

\* ---- generateColorPalette
Green == <<Num(0), Num(200), Num(0)>>
Red == <<Num(255), Num(0), Num(0)>>

\* C12: generateColorPalette(1) is the one triple (0, 200, 0), the green end
\* of the ramp; no division by numClasses - 1 = 0 takes place.
C12_SingleClassIsGreen ==
  (pc = "done" /\ op = "generateColorPalette" /\ numClasses = 1) =>
     Len(palette) = 1 /\ palette[1] = Green

IsChannel(c) == c.kind = "number" /\ c.val \in 0..255

\* C13: for every numClasses >= 1 every triple of the palette has three
\* integer channels in 0..255 (never NaN), and its blue channel is 0.
C13_ChannelsInRange ==
  (pc = "done" /\ op = "generateColorPalette" /\ numClasses >= 1) =>
     \A p \in 1..Len(palette) :
        /\ Len(palette[p]) = 3
        /\ \A c \in 1..3 : IsChannel(palette[p][c])
        /\ palette[p][3] = Num(0)

\* a <= b on channels; false when either is NaN
ChannelLe(a, b) == a.kind = "number" /\ b.kind = "number" /\ a.val <= b.val

\* C14: for every n >= 1 generateColorPalette(n) has exactly n triples; along
\* increasing index red is non-decreasing and green is non-increasing.
C14_CountAndMonotone ==
  (pc = "done" /\ op = "generateColorPalette" /\ numClasses >= 1) =>
     /\ Len(palette) = numClasses
     /\ \A p \in 1..(Len(palette) - 1) :
           /\ ChannelLe(palette[p][1], palette[p + 1][1])
           /\ ChannelLe(palette[p + 1][2], palette[p][2])

\* a palette whose red rises and whose green falls between two neighbours
C14_Witness ==
  /\ pc = "done" /\ op = "generateColorPalette" /\ numClasses >= 4
  /\ Len(palette) = numClasses
  /\ \E p \in 1..(Len(palette) - 1) : palette[p][1].val < palette[p + 1][1].val
  /\ \E p \in 1..(Len(palette) - 1) : palette[p + 1][2].val < palette[p][2].val

\* the triple of index i of n that the formulas of the two segments give,
\* with t = i / (n - 1) and the floors taken of the exact products
RampEntry(i, n) ==
  IF 2 * i < n - 1
  THEN <<Num((2 * i * 204) \div (n - 1)), Num(200), Num(0)>>
  ELSE <<Num(204 + ((2 * i - (n - 1)) * 51) \div (n - 1)),
         Num(200 - ((2 * i - (n - 1)) * 200) \div (n - 1)), Num(0)>>

\* C15: for n >= 2 and t = i/(n-1), entries with t < 0.5 are
\* (floor(2t*204), 200, 0) and entries with t >= 0.5 are
\* (204 + floor((2t-1)*51), 200 - floor((2t-1)*200), 0); the first colour is
\* (0,200,0) and the last is (255,0,0).
C15_TwoSegmentRamp ==
  (pc = "done" /\ op = "generateColorPalette" /\ numClasses >= 2) =>
     /\ \A p \in 1..Len(palette) : palette[p] = RampEntry(p - 1, numClasses)
     /\ palette[1] = Green
     /\ palette[Len(palette)] = Red

\* ---- scenario
\* C16: for the sample 1..10 and k = 3 jenksBreaks returns [1,4,7,10]: of the
\* equally good partitions 3/3/4, 3/4/3 and 4/3/3 the one with groups
\* {1,2,3}, {4,5,6}, {7,8,9,10} is reported.
C16_ScenarioA ==
  (pc = "done" /\ op = "jenksBreaks" /\ data = AsNumbers(ScenarioA)
     /\ nClasses = 3) =>
     /\ run.result = <<1, 4, 7, 10>>
     /\ ChosenStarts = <<1, 4, 7>>
     /\ \A st \in {<<1, 4, 7>>, <<1, 4, 8>>, <<1, 5, 8>>} :
           PartitionCost(run.sorted, st) = MinCost(run.sorted, 3)

\* the finished call on the ten values
C16_Witness ==
  /\ pc = "done" /\ op = "jenksBreaks" /\ data = AsNumbers(ScenarioA)
  /\ nClasses = 3 /\ run.branch = "dp" /\ Len(run.result) = 4

\* ---- sample preparation
Occurrences(s, x) == Cardinality({p \in 1..Len(s) : s[p] = x})

\* C17: the sample preparation drops every entry that is null, undefined, NaN,
\* +Infinity or -Infinity, keeps all finite numbers with their duplicates and
\* orders them ascending: the prepared sample holds finite numbers only.
C17_FiniteSortedSample ==
  (pc = "done" /\ op = "jenksBreaks") =>
     /\ \A p \in 1..Len(run.sorted) : run.sorted[p] \in 0..MaxVal
     /\ \A v \in 0..MaxVal :
           Occurrences(run.sorted, v) = Occurrences(data, Num(v))
     /\ NonDecreasing(run.sorted)

\* C18: jenksBreaks returns the empty sequence when the input is empty or
\* missing and when every raw entry is null, undefined or NaN, for any k; the
\* call completes.
C18_NothingValidGivesEmpty ==
  (pc = "done" /\ op = "jenksBreaks"
     /\ (IsMissing(dataKind) \/ \A p \in 1..Len(data) : data[p] \in Invalids)) =>
     run.branch = "empty" /\ run.result = <<>>

\* an array of invalid entries only, NaN among them
C18_Witness ==
  /\ pc = "done" /\ op = "jenksBreaks" /\ dataKind = "array" /\ Len(data) >= 2
  /\ \A p \in 1..Len(data) : data[p] \in Invalids
  /\ \E p \in 1..Len(data) : data[p] = NaN
  /\ run.result = <<>>

\* ---- failure policy
\* the call completed with a value of the function's result type
ReturnsItsType ==
  /\ op = "jenksBreaks" =>
        \A p \in 1..Len(run.result) : run.result[p] \in SampleSet
  /\ op = "getClassIndex" =>
        (classIndex = 0 - 1 \/ classIndex \in 0..(Len(breaksArg) - 2))
  /\ op = "getICIOColor" => Len(color) = 3

\* C19 as stated: no operation raises an exception or reads outside its
\* arrays: for every sample, k >= 1, value, break sequence (empty and
\* single-entry ones included) and palette, jenksBreaks, getClassIndex and
\* getICIOColor complete and return a break sequence, a class index or -1,
\* and an RGB triple.
C19_NoReadOutsideArrays ==
  pc = "done" => (ReturnsItsType /\ outside = {})

\* C19, amended: every call completes with a value of its type; jenksBreaks
\* and getICIOColor read inside their arrays only; getClassIndex does so
\* exactly when breaks has at least 2 entries or the value is null, undefined
\* or NaN, and otherwise its one read outside is breaks[breaks.length - 2].
C19_CompletesReadsShortBreaks ==
  pc = "done" =>
     /\ ReturnsItsType
     /\ op \in {"jenksBreaks", "getICIOColor"} => outside = {}
     /\ op = "getClassIndex" =>
           /\ (outside = {}) <=> (Len(breaksArg) >= 2 \/ ~IsNumber(value))
           /\ outside \subseteq {<<"breaks", Len(breaksArg) - 2>>}
           /\ outside # {} => classIndex = 0 - 1

\* getClassIndex, given one break and a number at least as large, reads
\* breaks[-1], which is undefined, and returns -1
C19_Witness ==
  /\ pc = "done" /\ op = "getClassIndex" /\ Len(breaksArg) = 1
  /\ IsNumber(value) /\ value.val >= breaksArg[1]
  /\ outside = {<<"breaks", 0 - 1>>} /\ classIndex = 0 - 1

DpDone == pc = "done" /\ op = "jenksBreaks" /\ run.branch = "dp"
LowerClassLimits == run.tables.lowerClassLimits
VarianceCombinations == run.tables.varianceCombinations

\* the sum the loop forms for split index k of cell [j][i]
SplitCost(i, j, k) ==
  Plus(VarianceCombinations[k - 1][i - 1], varianceWithin(run.sorted, k - 1, j - 1))

\* the split indices of cell [j][i] whose sum no other index undercuts
BestSplits(i, j) ==
  {k \in i..j : \A h \in i..j : ~Less(SplitCost(i, j, h), SplitCost(i, j, k))}

\* C23: for i > 1, lowerClassLimits[j][i] is the smallest split index k in
\* i..j that attains the minimum of V[k-1][i-1] + variance(sorted[k-1..j-1]);
\* on an exact tie a later k never replaces an earlier one.
C23_EarliestBestSplit ==
  DpDone =>
     \A i \in 2..nClasses : \A j \in i..Len(run.sorted) :
        /\ LowerClassLimits[j][i] \in BestSplits(i, j)
        /\ \A k \in BestSplits(i, j) : LowerClassLimits[j][i] <= k

\* a cell for which two split indices tie at the minimum
C23_Witness ==
  /\ DpDone
  /\ \E i \in 2..nClasses : \E j \in i..Len(run.sorted) :
        /\ Cardinality(BestSplits(i, j)) >= 2
        /\ LowerClassLimits[j][i] < j

\* cost of the partition st of the first j sorted values, at the scale of the
\* whole sample
RECURSIVE PrefixCostUpTo(_, _, _)
PrefixCostUpTo(j, st, g) ==
  IF g = 0 THEN 0
  ELSE GroupSSD(GroupOf(SubSeq(run.sorted, 1, j), st, g), ScaleOf(run.sorted))
       + PrefixCostUpTo(j, st, g - 1)

PrefixCost(j, st) == PrefixCostUpTo(j, st, Len(st))

PrefixMinCost(j, i) ==
  LET costs == {PrefixCost(j, st) : st \in ContiguousPartitions(j, i)}
  IN CHOOSE c \in costs : \A d \in costs : c <= d

\* the start indices of the last group in the optimal splits of the prefix
OptimalLastStarts(j, i) ==
  {st[i] : st \in {t \in ContiguousPartitions(j, i) :
                      PrefixCost(j, t) = PrefixMinCost(j, i)}}

\* C24: after the fill loops, for every class count i in 1..k and prefix
\* length j in i..n, varianceCombinations[j][i] is the minimal total
\* within-group squared deviation of the first j sorted values split into i
\* non-empty contiguous groups, lowerClassLimits[j][i] is the start index of
\* the last group of such a split, and for i = 1 the entries are the squared
\* deviation of elements [0..j-1] and 1.
C24_TablesHoldOptima ==
  DpDone =>
     \A i \in 1..nClasses : \A j \in i..Len(run.sorted) :
        /\ VarianceCombinations[j][i] = PrefixMinCost(j, i)
        /\ LowerClassLimits[j][i] \in OptimalLastStarts(j, i)
        /\ i = 1 =>
              /\ VarianceCombinations[j][1]
                   = GroupSSD(SubSeq(run.sorted, 1, j), ScaleOf(run.sorted))
              /\ LowerClassLimits[j][1] = 1

\* three classes over four values with a cell whose optimum is not zero
C24_Witness ==
  /\ DpDone /\ nClasses = 3 /\ Len(run.sorted) = 4
  /\ VarianceCombinations[4][2] > 0
  /\ LowerClassLimits[4][2] \in 2..4
  /\ VarianceCombinations[4][3] < VarianceCombinations[4][2]

\* ---- backtracking
\* the row k of lowerClassLimits that the backtracking reads for class j
RowRead(j) == IF j = nClasses THEN Len(run.sorted) ELSE ChosenStarts[j + 1] - 1

\* the cells whose lowerClassLimits entry the fill loops assigned
IsAssignedCell(k, j) ==
  /\ k \in 1..Len(run.sorted) /\ j \in 1..nClasses
  /\ (k = 1 \/ j = 1 \/ k >= j)

\* C25: during backtracking from (n, k), n > k >= 1, every table cell read is
\* one the fill loops assigned, every recovered start index lies in 1..n
\* (never the initial 0), the k start indices are strictly increasing with
\* the first equal to 1, and every raw break candidate is a sample value.
C25_BacktrackingInRange ==
  DpDone =>
     /\ \A j \in 1..nClasses :
           /\ IsAssignedCell(RowRead(j), j)
           /\ ChosenStarts[j] \in 1..Len(run.sorted)
     /\ ChosenStarts[1] = 1
     /\ \A j \in 1..(nClasses - 1) : ChosenStarts[j] < ChosenStarts[j + 1]
     /\ Len(run.breaks) = nClasses + 1
     /\ \A p \in 1..Len(run.breaks) : run.breaks[p] \in SampleSet
     /\ outside = {}

\* a three-class backtracking whose top class is the last value alone
C25_Witness ==
  /\ DpDone /\ nClasses = 3 /\ Len(run.sorted) >= 4
  /\ ChosenStarts[3] = Len(run.sorted) /\ ChosenStarts[2] > 2

\* ---- the returned sequence
\* C26: the sequence jenksBreaks returns has no two equal entries and is
\* strictly increasing, for every input and k >= 1; the raw break candidates
\* are non-decreasing, so their duplicates are adjacent, and all are removed.
C26_StrictlyIncreasingResult ==
  (pc = "done" /\ op = "jenksBreaks") =>
     /\ StrictlyAscending(run.result)
     /\ run.branch = "dp" =>
           /\ NonDecreasing(run.breaks)
           /\ \A v \in SampleSet :
                 Occurrences(run.breaks, v) >= 1 <=> Occurrences(run.result, v) = 1

\* raw candidates with a repeated value, collapsed in the result
C26_Witness ==
  /\ DpDone /\ nClasses = 3
  /\ \E p \in 1..(Len(run.breaks) - 1) : run.breaks[p] = run.breaks[p + 1]
  /\ Len(run.result) < Len(run.breaks) /\ Len(run.result) >= 2

\* C27: every class of a returned break sequence is non-empty: for each i in
\* 0..m-2 some value of the sample has getClassIndex(value, breaks) = i.
C27_NoEmptyClass ==
  (pc = "done" /\ op = "jenksBreaks") =>
     \A i \in 0..(Len(run.result) - 2) :
        \E v \in SampleSet : getClassIndex(Num(v), run.result) = i

\* three classes, each holding a value of the sample
C27_Witness ==
  /\ DpDone /\ Len(run.result) = 4
  /\ \A i \in 0..2 : \E v \in SampleSet : getClassIndex(Num(v), run.result) = i

\* ---- the App
UiEvent == OnHover \/ OnClick \/ OnClose

\* colorPalette has naturalBreaks.length - 1 entries, none below 2 breaks
PaletteFitsBreaks ==
  Len(colorPalette) = IF naturalBreaks.kind = "null" \/ Len(naturalBreaks.val) < 2
                      THEN 0 ELSE Len(naturalBreaks.val) - 1

\* C21: the break sequence and the palette are computed once per dataset
\* change: hover, click and closing the calculator, which change only
\* hoveredObject, cursor, clickedIndex or the calculator state, leave
\* naturalBreaks and colorPalette as they are, and after every dataset change
\* colorPalette has naturalBreaks.length - 1 entries (none if fewer than 2
\* breaks exist).
C21_MemosFollowDataset ==
  [][/\ (UiEvent \/ geoJsonData' = geoJsonData) =>
           /\ naturalBreaks' = naturalBreaks
           /\ colorPalette' = colorPalette
           /\ computations' = computations
     /\ geoJsonData' # geoJsonData =>
           /\ naturalBreaks' = computeNaturalBreaks(geoJsonData')
           /\ computations'.naturalBreaks = computations.naturalBreaks + 1
           /\ computations'.colorPalette <= computations.colorPalette + 1
     /\ PaletteFitsBreaks']_vars

\* hover, click and close have all happened on a loaded dataset of several
\* classes, and each memo ran once at the first render and once for the data
C21_Witness ==
  /\ loadPc = "loaded" /\ hoveredObject # NullIndex /\ clickedIndex # NullIndex
  /\ ~calculatorOpen /\ Len(colorPalette) >= 2
  /\ computations = [naturalBreaks |-> 2, colorPalette |-> 2]

SameStatus(a, b) ==
  /\ (clickedIndex = a - 1) <=> (clickedIndex = b - 1)
  /\ (hoveredObject = a - 1) <=> (hoveredObject = b - 1)

\* C22: the size of a rendered point represents the magnitude of its ICIO
\* value: two features with different ICIO values and the same hover/click
\* status are rendered with different sizes.
C22_SizeReflectsIcio ==
  \A a, b \in 1..Len(layer) :
     (/\ IsValidIcio(geoJsonData.val[a]) /\ IsValidIcio(geoJsonData.val[b])
      /\ geoJsonData.val[a].val # geoJsonData.val[b].val
      /\ SameStatus(a, b))
       => layer[a].size # layer[b].size

ValidIcioSet ==
  {geoJsonData.val[p].val :
     p \in {q \in 1..Len(geoJsonData.val) : IsValidIcio(geoJsonData.val[q])}}

\* C28: with at least two distinct valid ICIO values, breaks =
\* jenksBreaks(values, 12) and palette = generateColorPalette(breaks.length
\* - 1), every feature with a valid ICIO gets palette[c] for some c in
\* 0..palette.length-1 and never the gray; gray goes to the features whose
\* ICIO is null or NaN only.
C28_ValidFeaturesColoured ==
  (geoJsonData.kind = "array" /\ Cardinality(ValidIcioSet) >= 2) =>
     /\ naturalBreaks.kind = "array" /\ Len(naturalBreaks.val) >= 2
     /\ colorPalette = generateColorPalette(Len(naturalBreaks.val) - 1)
     /\ Len(layer) = Len(geoJsonData.val)
     /\ \A p \in 1..Len(layer) :
           IF IsValidIcio(geoJsonData.val[p])
           THEN /\ \E c \in 1..Len(colorPalette) : layer[p].icon = colorPalette[c]
                /\ layer[p].icon # Gray
           ELSE layer[p].icon = Gray

\* fourteen values and a null through the tables with 12 classes: the
\* largest value takes the last colour, the null feature the gray
C28_Witness ==
  /\ geoJsonData = Arr(AsNumbers(ManyWithOutlier) \o <<Null>>)
  /\ Len(naturalBreaks.val) > 2
  /\ layer[14].icon = colorPalette[Len(colorPalette)]
  /\ layer[1].icon = colorPalette[1]
  /\ layer[15].icon = Gray

\* C29: every run of loadCSVData sets loading to true at its start and
\* eventually sets it back to false, on success and on failure; on failure
\* error is a message and geoJsonData and icioRange keep their previous
\* values; on success error stays null and geoJsonData is replaced.
C29_LoadingEndsEitherWay ==
  /\ [][/\ LoadStart => loading'
        /\ (loadPc # "failed" /\ loadPc' = "failed") =>
              /\ error' # "null"
              /\ geoJsonData' = geoJsonData /\ icioRange' = icioRange
        /\ (loadPc # "loaded" /\ loadPc' = "loaded") =>
              /\ error' = "null"
              /\ geoJsonData' # geoJsonData /\ geoJsonData'.kind = "array"]_vars
  /\ [](loadPc \in {"failed", "loaded"} => ~loading)
  /\ (loading ~> ~loading)

\* a run that failed on the response status and ended with loading false
C29_Witness ==
  /\ loadPc = "failed" /\ ~loading
  /\ error = "Error loading data: Failed to load CSV file"
  /\ geoJsonData = NullArray

====
